---- MODULE Spec2Model ----
(***************************************************************************)
(* Model of quiz_bot.py: the completion requester with its retry loop      *)
(* (generate_quiz_question_sync), the response parser                      *)
(* (parse_quiz_response), the /quiz handler (quiz) and the poll-answer     *)
(* handler (receive_poll_answer).                                          *)
(*                                                                         *)
(* A text is a sequence of tokens.  A token is a literal piece of the      *)
(* string: a keyword, one of the letters A-D, ")", a blank, a newline, or  *)
(* a word (a run of characters that holds no newline, no keyword, does     *)
(* not end with a letter A-D and has no blank at either end).  The         *)
(* regular expressions of the parser are evaluated on these tokens.        *)
(* Python's None is the empty sequence << >> and a present value x is      *)
(* << x >>, so that None and the empty text '' stay distinct.              *)
(***************************************************************************)
EXTENDS Integers, Sequences, FiniteSets, TLC

VARIABLES
    pc,           \* per request: where the quiz() coroutine / its worker thread stands
    chat,         \* per request: update.effective_chat.id
    max_retries,  \* per request: the max_retries argument of generate_quiz_question_sync
    attempt,      \* per request: loop variable of the retry loop
    calls,        \* per request: completed model.generate_content calls
    errlog,       \* per request: attempt numbers written by logger.error
    sleeps,       \* per request: durations passed to time.sleep, in order
    response,     \* per request: the text of the response the endpoint returned
    ret,          \* per request: response_text (None, or a text)
    sent,         \* per request: texts passed to update.message.reply_text
    pollreq,      \* per request: keyword arguments passed to reply_poll
    pollmsg,      \* per request: poll_message.poll.id returned by reply_poll
    polls,        \* platform: the polls it created
    bot_data,     \* context.bot_data: poll id -> session
    outbox,       \* messages passed to context.bot.send_message
    last,         \* the last operation that ran, with its inputs
    periodic,     \* the send_quiz_periodically task
    parse_in,     \* argument of a direct call of parse_quiz_response
    parse_out     \* its return value

vars == << pc, chat, max_retries, attempt, calls, errlog, sleeps, response, ret, sent,
           pollreq, pollmsg, polls, bot_data, outbox, last, periodic, parse_in,
           parse_out >>

-----------------------------------------------------------------------------
(* Bounds of the model *)

MaxReq == 2
MaxAnswers == 1
MaxRepeat == 1
MaxRetriesArg == 4

-----------------------------------------------------------------------------
(* Values *)

None == << >>
Some(x) == << x >>

QKW == "Question:"
CKW == "Correct Answer:"
EKW == "Explanation:"
RP == ")"
SP == " "
NL == "\n"

\* What the last handler to run was, the poll id it was given (0 when it takes
\* none) and whether it ended without raising.
Event(op, poll_id, ok) == [op |-> op, poll_id |-> poll_id, ok |-> ok]

Letters == {"A", "B", "C", "D"}
LetterSeq == << "A", "B", "C", "D" >>

Ord(ch) == CASE ch = "A" -> 65 [] ch = "B" -> 66 [] ch = "C" -> 67 [] ch = "D" -> 68

QuestionNotFound == << "Question not found" >>
RetryLaterMsg == << "Sorry, failed to generate quiz question. Please try again later." >>
CouldNotParseMsg == << "Sorry, could not parse question correctly. Please try again." >>

ExampleQuestion == "What gem do you use for Cucumber?"
ExampleExplanation == "Cucumber is the gem implementing the Gherkin syntax."

(* First character of a token, for the tokens whose first character is one
   of A-D; "" stands for any other character. *)
FirstChar(tok) ==
    IF tok \in Letters THEN tok
    ELSE IF tok = CKW \/ tok = ExampleExplanation THEN "C"
    ELSE ""

-----------------------------------------------------------------------------
(* Regular-expression pieces *)

IsSpace(tok) == tok \in {SP, NL}

Min(S) == CHOOSE x \in S : \A y \in S : x <= y

\* Greedy whitespace run from position i: the first position at or after i
\* that holds no whitespace (Len + 1 when there is none).
SkipSpace(txt, i) ==
    LET S == {j \in i..Len(txt) : ~IsSpace(txt[j])}
    IN  IF S = {} THEN Len(txt) + 1 ELSE Min(S)

\* The rest-of-line group from position j: it stops before the next newline.
LineEnd(txt, j) ==
    LET S == {k \in j..Len(txt) : txt[k] = NL}
    IN  IF S = {} THEN Len(txt) + 1 ELSE Min(S)

RECURSIVE LStrip(_)
LStrip(s) == IF s # << >> /\ IsSpace(Head(s)) THEN LStrip(Tail(s)) ELSE s

RECURSIVE RStrip(_)
RStrip(s) ==
    IF s # << >> /\ IsSpace(s[Len(s)]) THEN RStrip(SubSeq(s, 1, Len(s) - 1)) ELSE s

Strip(s) == RStrip(LStrip(s))

\* re.search for the Question pattern (keyword, whitespace run, rest of
\* line): group 1 of the first match, or None.
QuestionMatch(txt) ==
    LET S == {i \in 1..Len(txt) : txt[i] = QKW}
    IN  IF S = {} THEN None
        ELSE LET j == SkipSpace(txt, Min(S) + 1)
             IN  Some(SubSeq(txt, j, LineEnd(txt, j) - 1))

OptionAt(txt, i) == i + 1 <= Len(txt) /\ txt[i] \in Letters /\ txt[i + 1] = RP

\* re.findall for the option pattern (a letter A-D, a closing parenthesis,
\* whitespace run, rest of line): the (letter, text) pairs of the
\* non-overlapping matches, left to right.
RECURSIVE FindFrom(_, _)
FindFrom(txt, i) ==
    IF i > Len(txt) THEN << >>
    ELSE IF OptionAt(txt, i)
         THEN LET j == SkipSpace(txt, i + 2)
                  k == LineEnd(txt, j)
              IN  << << txt[i], SubSeq(txt, j, k - 1) >> >> \o FindFrom(txt, k)
         ELSE FindFrom(txt, i + 1)

FindOptions(txt) == FindFrom(txt, 1)

\* re.search for the Correct Answer pattern (keyword, whitespace run, one
\* character of A-D): group 1 of the first match, or None.
CorrectMatch(txt) ==
    LET S == {i \in 1..Len(txt) :
                /\ txt[i] = CKW
                /\ SkipSpace(txt, i + 1) <= Len(txt)
                /\ FirstChar(txt[SkipSpace(txt, i + 1)]) \in Letters}
    IN  IF S = {} THEN None
        ELSE Some(FirstChar(txt[SkipSpace(txt, Min(S) + 1)]))

\* re.search for the Explanation pattern with DOTALL (keyword, whitespace
\* run, everything to the end of the text): group 1, or None.
ExplanationMatch(txt) ==
    LET S == {i \in 1..Len(txt) : txt[i] = EKW}
    IN  IF S = {} THEN None
        ELSE Some(SubSeq(txt, SkipSpace(txt, Min(S) + 1), Len(txt)))

-----------------------------------------------------------------------------
(* parse_quiz_response *)

CorrectIndexOffByOne(letter) == Ord(letter) - Ord("A") + 1

CorrectIndex(letter) == Ord(letter) - Ord("A")

InvalidParseWithIndex ==
    [question |-> None, options |-> << >>, correct_index |-> Some(0),
     explanation |-> << >>]

InvalidParse ==
    [question |-> None, options |-> << >>, correct_index |-> None, explanation |-> << >>]

ParseText(txt) ==
    LET question_match == QuestionMatch(txt)
        options == FindOptions(txt)
        correct_match == CorrectMatch(txt)
        explanation_match == ExplanationMatch(txt)
    IN  [question |->
            IF question_match # None THEN Some(Strip(question_match[1]))
            ELSE Some(QuestionNotFound),
         options |-> [n \in 1..Len(options) |-> options[n][2]],
         correct_index |->
            IF correct_match # None THEN Some(CorrectIndex(correct_match[1]))
            ELSE None,
         explanation |->
            IF explanation_match # None THEN Strip(explanation_match[1])
            ELSE << >>]

(* response_text is None, or Some(text).  re.search on None raises TypeError,
   which the except branch turns into the invalid-parse tuple. *)
parse_quiz_response(response_text) ==
    IF response_text = None THEN InvalidParse ELSE ParseText(response_text[1])

-----------------------------------------------------------------------------
(* Completion texts the endpoint may return *)

OptWord(l) ==
    CASE l = "A" -> "cucumber" [] l = "B" -> "rspec"
      [] l = "C" -> "capybara" [] l = "D" -> "selenium"

QLine == << QKW, SP, ExampleQuestion >>
HLine == << "Options:" >>
OptLine(l) == << l, RP, SP, OptWord(l) >>
CLine(l) == << CKW, SP, l >>
ELine == << EKW, SP, ExampleExplanation >>
MentionLine == << "Unlike", SP, "B", RP, SP, "it reads features." >>

RECURSIVE JoinLines(_)
JoinLines(ls) ==
    IF ls = << >> THEN << >>
    ELSE IF Len(ls) = 1 THEN ls[1]
    ELSE ls[1] \o << NL >> \o JoinLines(Tail(ls))

(* q: Question line present; h: "Options:" line present; S: the letters with
   an option line; x: how many times the completion repeats the A) line after
   the options; c: the letter of the Correct Answer line ("-" for no such
   line); e: 0 no explanation, 1 a one-line explanation, 2 a two-line
   explanation whose second line mentions "B)". *)
Text(q, h, S, x, c, e) ==
    JoinLines(
        (IF q THEN << QLine >> ELSE << >>)
        \o (IF h THEN << HLine >> ELSE << >>)
        \o [n \in 1..Len(SelectSeq(LetterSeq, LAMBDA l : l \in S)) |->
                OptLine(SelectSeq(LetterSeq, LAMBDA l : l \in S)[n])]
        \o [n \in 1..x |-> OptLine("A")]
        \o (IF c = "-" THEN << >> ELSE << CLine(c) >>)
        \o (IF e = 0 THEN << >> ELSE IF e = 1 THEN << ELine >>
            ELSE << ELine, MentionLine >>))

ParseTexts ==
    { Text(q, h, S, x, c, e) :
        q \in BOOLEAN, h \in BOOLEAN, S \in SUBSET Letters, x \in 0..MaxRepeat,
        c \in {"-"} \cup Letters, e \in 0..2 }

ExampleText == Text(TRUE, TRUE, Letters, 0, "A", 1)

-----------------------------------------------------------------------------
(* Direct calls of parse_quiz_response *)

Reqs == 1..MaxReq

\* The send_quiz_periodically task: chat is PERIODIC_CHAT_ID; state is "off"
\* (the task was never created), "waiting" (before its first iteration, or in
\* asyncio.sleep) or "running" (inside quiz()); cur is the request it is
\* running; timer holds the requests it started; errors counts the
\* logger.error calls of its except branch.
PeriodicTask(c, state, cur, timer, errors) ==
    [chat |-> c, state |-> state, cur |-> cur, timer |-> timer, errors |-> errors]

\* PERIODIC_CHAT_ID = None: main() does not create the task
PeriodicOff == PeriodicTask(None, "off", 0, {}, 0)

InitBot ==
    /\ pc = [r \in Reqs |-> "idle"]
    /\ chat = [r \in Reqs |-> 0]
    /\ max_retries = [r \in Reqs |-> 0]
    /\ attempt = [r \in Reqs |-> 0]
    /\ calls = [r \in Reqs |-> 0]
    /\ errlog = [r \in Reqs |-> << >>]
    /\ sleeps = [r \in Reqs |-> << >>]
    /\ response = [r \in Reqs |-> None]
    /\ ret = [r \in Reqs |-> None]
    /\ sent = [r \in Reqs |-> << >>]
    /\ pollreq = [r \in Reqs |-> << >>]
    /\ pollmsg = [r \in Reqs |-> None]
    /\ polls = {}
    /\ bot_data = << >>
    /\ outbox = << >>
    /\ last = Event("init", 0, TRUE)
    /\ periodic = PeriodicOff

botvars == << pc, chat, max_retries, attempt, calls, errlog, sleeps, response, ret, sent,
              pollreq, pollmsg, polls, bot_data, outbox, last, periodic >>

InitParse ==
    /\ InitBot
    /\ parse_in \in {None} \cup {Some(t) : t \in ParseTexts}
    /\ parse_out = None

ParseCall ==
    /\ parse_out = None
    /\ parse_out' = Some(parse_quiz_response(parse_in))
    /\ UNCHANGED << botvars, parse_in >>

NextParse == ParseCall

SpecParse == InitParse /\ [][NextParse]_vars

-----------------------------------------------------------------------------
(* The bot: requests, platform, sessions *)

DefaultMaxRetries == 3

Chats == {100, 200}
Users == {"Ann", "Bob"}
StalePollIds == {0}

BotTexts ==
    { << >>,
      ExampleText,
      Text(TRUE, TRUE, {"A", "B"}, 0, "D", 1),
      Text(TRUE, TRUE, {"B", "D"}, 0, "D", 1),
      Text(TRUE, TRUE, {}, 0, "A", 1),
      Text(TRUE, TRUE, Letters, 0, "-", 1),
      Text(TRUE, TRUE, {"A"}, 0, "A", 1),
      Text(TRUE, TRUE, Letters, 1, "B", 1),
      Text(TRUE, TRUE, {"A", "C"}, 0, "A", 2) }

\* parse_quiz_response on the texts the endpoint may return, computed once and
\* looked up by quiz().
ParsedTexts == [t \in BotTexts |-> parse_quiz_response(Some(t))]

\* response_text, correct_index, ... = parse_quiz_response(response_text)
Parsed(response_text) ==
    IF response_text # None /\ response_text[1] \in BotTexts
    THEN ParsedTexts[response_text[1]]
    ELSE parse_quiz_response(response_text)

\* for attempt in range(max_retries): the loop body runs when max_retries > 0,
\* otherwise the function falls off its end and returns None.
EnterLoop(r, n) ==
    /\ max_retries' = [max_retries EXCEPT ![r] = n]
    /\ attempt' = [attempt EXCEPT ![r] = 0]
    /\ pc' = [pc EXCEPT ![r] = IF 0 < n THEN "call" ELSE "returned"]

NotLastAttemptAlways(a, n) == a < n

NotLastAttemptEarly(a, n) == a < n - 2

\* if attempt < max_retries - 1
NotLastAttempt(a, n) == a < n - 1

SleepTimeLinear(a) == 2 * a

\* sleep_time = 2 ** attempt
SleepTime(a) == 2 ^ a

\* The handlers are registered with their defaults on an Application built with
\* its defaults: the update loop awaits the handler of one update before it
\* takes the next, so no update is handled while a command-triggered quiz() is
\* still running.  The periodic task is no update handler and holds nothing up.
DispatcherFree ==
    \A r \in Reqs : pc[r] \in {"idle", "done", "raised"} \/ r \in periodic.timer

\* /quiz arrives in chat c: quiz() awaits generate_quiz_question(), which runs
\* generate_quiz_question_sync() with its default argument in a worker thread.
Quiz(r, c) ==
    /\ DispatcherFree
    /\ pc[r] = "idle"
    /\ \A q \in Reqs : q < r => pc[q] # "idle"
    /\ chat' = [chat EXCEPT ![r] = c]
    /\ EnterLoop(r, DefaultMaxRetries)
    /\ last' = Event("quiz", 0, TRUE)
    /\ UNCHANGED << calls, errlog, sleeps, response, ret, sent, pollreq, pollmsg, polls,
                    bot_data, outbox, periodic, parse_in, parse_out >>

\* model.generate_content (or response.text) raises: the except branch.
EndpointFail(r) ==
    /\ pc[r] = "call"
    /\ calls' = [calls EXCEPT ![r] = @ + 1]
    /\ errlog' = [errlog EXCEPT ![r] = Append(@, attempt[r] + 1)]
    /\ IF NotLastAttempt(attempt[r], max_retries[r])
       THEN /\ sleeps' = [sleeps EXCEPT ![r] = Append(@, SleepTime(attempt[r]))]
            /\ pc' = [pc EXCEPT ![r] = "sleep"]
            /\ UNCHANGED ret
       ELSE /\ ret' = [ret EXCEPT ![r] = None]
            /\ pc' = [pc EXCEPT ![r] = "returned"]
            /\ UNCHANGED sleeps
    /\ last' = Event("endpoint_fail", 0, TRUE)
    /\ UNCHANGED << chat, max_retries, attempt, response, sent, pollreq, pollmsg, polls,
                    bot_data, outbox, periodic, parse_in, parse_out >>

\* time.sleep returns and the loop goes to its next iteration; when range() is
\* used up the function falls off its end and returns None.
BackoffDone(r) ==
    /\ pc[r] = "sleep"
    /\ IF attempt[r] + 1 < max_retries[r]
       THEN /\ attempt' = [attempt EXCEPT ![r] = @ + 1]
            /\ pc' = [pc EXCEPT ![r] = "call"]
            /\ UNCHANGED ret
       ELSE /\ ret' = [ret EXCEPT ![r] = None]
            /\ pc' = [pc EXCEPT ![r] = "returned"]
            /\ UNCHANGED attempt
    /\ last' = Event("backoff_done", 0, TRUE)
    /\ UNCHANGED << chat, max_retries, calls, errlog, sleeps, response, sent,
                    pollreq, pollmsg, polls, bot_data, outbox, periodic, parse_in, parse_out >>

\* return response.text
ReturnText(t) == Some(t)

\* model.generate_content returns a response whose text is t.
EndpointSucceed(r, t) ==
    /\ pc[r] = "call"
    /\ calls' = [calls EXCEPT ![r] = @ + 1]
    /\ response' = [response EXCEPT ![r] = Some(t)]
    /\ ret' = [ret EXCEPT ![r] = ReturnText(t)]
    /\ pc' = [pc EXCEPT ![r] = "returned"]
    /\ last' = Event("endpoint_ok", 0, TRUE)
    /\ UNCHANGED << chat, max_retries, attempt, errlog, sleeps, sent, pollreq,
                    pollmsg, polls, bot_data, outbox, periodic, parse_in, parse_out >>

NoTextNoneOnly(response_text) == response_text = None

\* not response_text: None and the empty string are both falsy
NoText(response_text) == response_text = None \/ response_text = Some(<< >>)

UnparsedIndexOnly(p) == p.correct_index = None

\* correct_index is None or not options
Unparsed(p) == p.correct_index = None \/ p.options = << >>

PollArgs(p) ==
    [question |-> p.question, options |-> p.options, type |-> "quiz",
     correct_option_id |-> p.correct_index[1], is_anonymous |-> FALSE]

NewPollId == Cardinality(polls) + 1

\* update.message.reply_text(text): the call is made; the platform accepts it
\* (ok) or the call raises, and the exception leaves quiz().
ReplyText(r, text, ok) ==
    /\ sent' = [sent EXCEPT ![r] = Append(@, [text |-> text, accepted |-> ok])]
    /\ pc' = [pc EXCEPT ![r] = IF ok THEN "done" ELSE "raised"]
    /\ UNCHANGED << pollreq, pollmsg, polls >>

\* update.message.reply_poll(...): the call is made; the platform creates the
\* poll in the chat and returns its id (ok), or the call raises.
ReplyPoll(r, args, ok) ==
    /\ pollreq' = [pollreq EXCEPT ![r] = Append(@, args)]
    /\ IF ok
       THEN /\ polls' = polls \cup {[id |-> NewPollId, chat_id |-> chat[r], args |-> args]}
            /\ pollmsg' = [pollmsg EXCEPT ![r] = Some(NewPollId)]
            /\ pc' = [pc EXCEPT ![r] = "polled"]
       ELSE /\ pc' = [pc EXCEPT ![r] = "raised"]
            /\ UNCHANGED << polls, pollmsg >>
    /\ UNCHANGED sent

\* quiz() resumes with response_text and runs up to its next await.
QuizResume(r, ok) ==
    /\ pc[r] = "returned"
    /\ IF NoText(ret[r])
       THEN ReplyText(r, RetryLaterMsg, ok)
       ELSE IF Unparsed(Parsed(ret[r]))
            THEN ReplyText(r, CouldNotParseMsg, ok)
            ELSE ReplyPoll(r, PollArgs(Parsed(ret[r])), ok)
    /\ last' = Event("quiz_resume", 0, pc'[r] # "raised")
    /\ UNCHANGED << chat, max_retries, attempt, calls, errlog, sleeps, response, ret,
                    bot_data, outbox, periodic, parse_in, parse_out >>

SessionElsewhere(r) ==
    [explanation |-> Parsed(ret[r]).explanation, chat_id |-> 0]

\* {"explanation": explanation, "chat_id": update.effective_chat.id}
Session(r) ==
    [explanation |-> Parsed(ret[r]).explanation, chat_id |-> chat[r]]

PutAlone(d, k, v) == [x \in {k} |-> v]

PutDropped(d, k, v) == d

\* context.bot_data[poll_message.poll.id] = {...}
Put(d, k, v) == [x \in DOMAIN d \cup {k} |-> IF x = k THEN v ELSE d[x]]

\* quiz() resumes with poll_message and stores the session under the poll id.
QuizRegister(r) ==
    /\ pc[r] = "polled"
    /\ bot_data' = Put(bot_data, pollmsg[r][1], Session(r))
    /\ pc' = [pc EXCEPT ![r] = "done"]
    /\ last' = Event("quiz_register", 0, TRUE)
    /\ UNCHANGED << chat, max_retries, attempt, calls, errlog, sleeps, response, ret, sent,
                    pollreq, pollmsg, polls, outbox, periodic, parse_in, parse_out >>

GetOrDefault(d, poll_id) ==
    IF poll_id \in DOMAIN d THEN Some(d[poll_id])
    ELSE Some([explanation |-> << >>, chat_id |-> 0])

\* context.bot_data.get(poll_id): the session, or None
Get(d, poll_id) == IF poll_id \in DOMAIN d THEN Some(d[poll_id]) ELSE None

ExplanationMsgAnonymous(first_name, explanation) ==
    << "[book] Explanation for ", "user", ":", NL >> \o explanation

\* the f-string of send_message; "[book]" stands for its leading book emoji
ExplanationMsg(first_name, explanation) ==
    << "[book] Explanation for ", first_name, ":", NL >> \o explanation

\* A poll-answer event: user picked option of poll poll_id.  When a session is
\* found, send_message is called; the platform accepts it (ok) or it raises.
ReceivePollAnswer(poll_id, user, option, ok) ==
    /\ DispatcherFree
    /\ Len(outbox) < MaxAnswers
    /\ LET data == Get(bot_data, poll_id)
       IN  IF data # None
           THEN /\ outbox' = Append(outbox,
                        [chat_id |-> data[1].chat_id,
                         text |-> ExplanationMsg(user, data[1].explanation)])
                /\ last' = Event("answer", poll_id, ok)
           ELSE /\ UNCHANGED outbox
                /\ last' = Event("answer", poll_id, TRUE)
    /\ UNCHANGED << pc, chat, max_retries, attempt, calls, errlog, sleeps, response, ret,
                    sent, pollreq, pollmsg, polls, bot_data, periodic, parse_in, parse_out >>

PollIds == {p.id : p \in polls} \cup StalePollIds

Init ==
    /\ InitBot
    /\ parse_in = None
    /\ parse_out = None

Next ==
    \/ \E r \in Reqs, c \in Chats : Quiz(r, c)
    \/ \E r \in Reqs : EndpointFail(r)
    \/ \E r \in Reqs : BackoffDone(r)
    \/ \E r \in Reqs, t \in BotTexts : EndpointSucceed(r, t)
    \/ \E r \in Reqs, ok \in BOOLEAN : QuizResume(r, ok)
    \/ \E r \in Reqs : QuizRegister(r)
    \/ \E poll_id \in PollIds, user \in Users, option \in 0..1, ok \in BOOLEAN :
          ReceivePollAnswer(poll_id, user, option, ok)

Spec == Init /\ [][Next]_vars

\* The steps of one quiz request: an endpoint call returns or fails, a backoff
\* sleep ends, a platform call returns or fails, quiz() resumes.
QuizSteps(r) ==
    \/ EndpointFail(r)
    \/ BackoffDone(r)
    \/ \E t \in BotTexts : EndpointSucceed(r, t)
    \/ \E ok \in BOOLEAN : QuizResume(r, ok)
    \/ QuizRegister(r)

\* The bot when every call a request waits for returns or fails in the end.
SpecLive == Spec /\ \A r \in Reqs : WF_vars(QuizSteps(r))

-----------------------------------------------------------------------------
(* The bot with PERIODIC_CHAT_ID set: main() creates send_quiz_periodically *)

PeriodicChatIds == {200}

\* if PERIODIC_CHAT_ID: application.create_task(send_quiz_periodically(...))
InitPeriodic ==
    /\ InitBot
    /\ parse_in = None
    /\ parse_out = None

PeriodicCreated(c) == PeriodicTask(Some(c), "waiting", 0, {}, 0)

\* The task is created at start-up, before any update is handled.
CreateTask(c) ==
    /\ periodic = PeriodicOff
    /\ \A r \in Reqs : pc[r] = "idle"
    /\ outbox = << >>
    /\ periodic' = PeriodicCreated(c)
    /\ last' = Event("create_task", 0, TRUE)
    /\ UNCHANGED << pc, chat, max_retries, attempt, calls, errlog, sleeps, response, ret,
                    sent, pollreq, pollmsg, polls, bot_data, outbox, parse_in, parse_out >>

\* One turn of the while True loop starts (at once the first time, after
\* asyncio.sleep(interval_seconds) later): quiz(DummyUpdate(), DummyContext())
\* with effective_chat.id = chat_id, reply_text and reply_poll sending to
\* chat_id, and bot_data the application's bot_data.
PeriodicQuiz(r) ==
    /\ periodic.state = "waiting"
    /\ pc[r] = "idle"
    /\ \A q \in Reqs : q < r => pc[q] # "idle"
    /\ chat' = [chat EXCEPT ![r] = periodic.chat[1]]
    /\ EnterLoop(r, DefaultMaxRetries)
    /\ periodic' = [periodic EXCEPT !.state = "running", !.cur = r,
                                    !.timer = @ \cup {r}]
    /\ last' = Event("periodic_quiz", 0, TRUE)
    /\ UNCHANGED << calls, errlog, sleeps, response, ret, sent, pollreq, pollmsg, polls,
                    bot_data, outbox, parse_in, parse_out >>

PeriodicReturnUncaught ==
    [periodic EXCEPT !.state = IF pc[periodic.cur] = "raised" THEN "dead" ELSE "waiting",
                     !.cur = 0]

\* quiz() returned, or raised into except Exception, which logs the error;
\* either way the loop goes on to await asyncio.sleep(interval_seconds).
PeriodicReturn ==
    [periodic EXCEPT !.state = "waiting", !.cur = 0,
                     !.errors = IF pc[periodic.cur] = "raised" THEN @ + 1 ELSE @]

PeriodicSleep ==
    /\ periodic.state = "running"
    /\ pc[periodic.cur] \in {"done", "raised"}
    /\ periodic' = PeriodicReturn
    /\ last' = Event("periodic_sleep", 0, TRUE)
    /\ UNCHANGED << pc, chat, max_retries, attempt, calls, errlog, sleeps, response, ret,
                    sent, pollreq, pollmsg, polls, bot_data, outbox, parse_in, parse_out >>

PeriodicTexts ==
    { << >>,
      ExampleText,
      Text(TRUE, TRUE, Letters, 0, "-", 1),
      Text(TRUE, TRUE, {"A", "C"}, 0, "A", 2) }

NextPeriodic ==
    \/ \E c \in PeriodicChatIds : CreateTask(c)
    \/ \E r \in Reqs : PeriodicQuiz(r)
    \/ PeriodicSleep
    \/ \E r \in Reqs, c \in Chats : Quiz(r, c)
    \/ \E r \in Reqs : EndpointFail(r)
    \/ \E r \in Reqs : BackoffDone(r)
    \/ \E r \in Reqs, t \in PeriodicTexts : EndpointSucceed(r, t)
    \/ \E r \in Reqs, ok \in BOOLEAN : QuizResume(r, ok)
    \/ \E r \in Reqs : QuizRegister(r)
    \/ \E poll_id \in PollIds, user \in Users, option \in 0..1, ok \in BOOLEAN :
          ReceivePollAnswer(poll_id, user, option, ok)

SpecPeriodic == InitPeriodic /\ [][NextPeriodic]_vars

-----------------------------------------------------------------------------
(* Direct calls of generate_quiz_question_sync(max_retries) *)

CallSync(r, n) ==
    /\ pc[r] = "idle"
    /\ \A q \in Reqs : q < r => pc[q] # "idle"
    /\ EnterLoop(r, n)
    /\ last' = Event("call_sync", 0, TRUE)
    /\ UNCHANGED << chat, calls, errlog, sleeps, response, ret, sent, pollreq, pollmsg,
                    polls, bot_data, outbox, periodic, parse_in, parse_out >>

\* one call at a time: the function shares no state with another call
SyncReqs == {1}

NextSync ==
    \/ \E r \in SyncReqs, n \in 0..MaxRetriesArg : CallSync(r, n)
    \/ \E r \in SyncReqs : EndpointFail(r)
    \/ \E r \in SyncReqs : BackoffDone(r)
    \/ \E r \in SyncReqs, t \in ParseTexts : EndpointSucceed(r, t)

SpecSync == Init /\ [][NextSync]_vars

-----------------------------------------------------------------------------
(* What the properties below say about a text, read line by line *)

RECURSIVE SplitLines(_)
SplitLines(txt) ==
    IF \A i \in 1..Len(txt) : txt[i] # NL THEN << txt >>
    ELSE LET n == CHOOSE i \in 1..Len(txt) :
                      txt[i] = NL /\ \A j \in 1..(i - 1) : txt[j] # NL
         IN  << SubSeq(txt, 1, n - 1) >> \o SplitLines(SubSeq(txt, n + 1, Len(txt)))

LinesOf(txt) == {SplitLines(txt)[n] : n \in 1..Len(SplitLines(txt))}

\* a line that opens with a letter A-D and ")"
IsOptionLine(line) == Len(line) >= 2 /\ line[1] \in Letters /\ line[2] = RP

\* a line that holds a letter A-D followed by ")" anywhere
HasOptionPattern(line) ==
    \E i \in 1..(Len(line) - 1) : line[i] \in Letters /\ line[i + 1] = RP

IsQuestionLine(line) == Len(line) >= 1 /\ line[1] = QKW

\* a line "Correct Answer: <letter>"
IsAnswerLine(line) == Len(line) = 3 /\ line[1] = CKW /\ line[2] = SP /\ line[3] \in Letters

OptionLineSeq(txt) == SelectSeq(SplitLines(txt), IsOptionLine)

OptionLetters(txt) == {line[1] : line \in {l \in LinesOf(txt) : IsOptionLine(l)}}

AnswerLetters(txt) == {line[3] : line \in {l \in LinesOf(txt) : IsAnswerLine(l)}}

HasKeyword(txt, kw) == \E i \in 1..Len(txt) : txt[i] = kw

\* the text of the first option line labelled l, after "l) "
LabelledText(txt, l) ==
    LET S == {n \in 1..Len(OptionLineSeq(txt)) : OptionLineSeq(txt)[n][1] = l}
        line == OptionLineSeq(txt)[CHOOSE n \in S : \A m \in S : n <= m]
    IN  SubSeq(line, 4, Len(line))

\* quiz() of request r has run past parsing
Resumed(r) == pc[r] \in {"polled", "done", "raised"}

HasText(r) == ret[r] # None /\ ret[r] # Some(<< >>)

-----------------------------------------------------------------------------
(* Properties *)

\* C1: with max_retries = 3 and an endpoint that fails on every attempt,
\* generate_quiz_question_sync makes exactly 3 calls and then returns None;
\* it makes no 4th call and does not return before the 3rd failure.
C1_ExhaustedRetriesReturnNone ==
    \A r \in Reqs :
        (pc[r] # "idle" /\ max_retries[r] = 3) =>
            /\ calls[r] <= 3
            /\ (response[r] = None /\ calls[r] = 3) =>
                    (pc[r] = "returned" /\ ret[r] = None /\ errlog[r] = << 1, 2, 3 >>)
            /\ (response[r] = None /\ pc[r] = "returned") =>
                    (calls[r] = 3 /\ ret[r] = None)

C1_Witness ==
    \E r \in Reqs :
        /\ max_retries[r] = 3 /\ pc[r] = "returned" /\ response[r] = None
        /\ ret[r] = None /\ calls[r] = 3

\* C2: when the endpoint fails on attempts 0..k-1 and succeeds on attempt k
\* (k < max_retries), the function returns exactly the text of that response,
\* after k logged failures (numbered 1..k) and k sleeps of 2^0, ..., 2^(k-1)
\* seconds in that order, and k+1 calls in all: none follows the success.
C2_SuccessAfterKFailures ==
    \A r \in Reqs :
        response[r] # None =>
            LET k == Len(errlog[r])
            IN  /\ pc[r] = "returned"
                /\ k < max_retries[r]
                /\ ret[r] = response[r]
                /\ calls[r] = k + 1
                /\ errlog[r] = [i \in 1..k |-> i]
                /\ sleeps[r] = [i \in 1..k |-> 2 ^ (i - 1)]

C2_Witness ==
    \E r \in Reqs :
        /\ pc[r] = "returned" /\ response[r] # None /\ ret[r] = response[r]
        /\ errlog[r] = << 1, 2 >> /\ sleeps[r] = << 1, 2 >> /\ calls[r] = 3

\* C3: when the Correct Answer line names a letter that no option line
\* carries, quiz() passes no poll to the platform and sends the
\* could-not-parse message instead, without raising of its own.
C3_MissingLetterNotPresented ==
    \A r \in Reqs :
        (/\ Resumed(r) /\ HasText(r)
         /\ \E l \in AnswerLetters(ret[r][1]) : l \notin OptionLetters(ret[r][1])) =>
            /\ pollreq[r] = << >>
            /\ Len(sent[r]) = 1
            /\ sent[r][1].text = CouldNotParseMsg

\* C4: every poll quiz() passes to the platform has a correct_option_id that
\* is an index into the options passed with it.
C4_CorrectIndexInRange ==
    \A r \in Reqs :
        \A n \in 1..Len(pollreq[r]) :
            /\ 0 <= pollreq[r][n].correct_option_id
            /\ pollreq[r][n].correct_option_id < Len(pollreq[r][n].options)

\* C5: for a text with a Question line, option lines for any subset of A-D
\* and a Correct Answer line naming a letter that has an option line, the
\* parse result's correct_index points at the option collected from the line
\* labelled with that letter.
C5_CorrectIndexPointsAtLetter ==
    (/\ parse_in # None /\ parse_out # None
     /\ \E line \in LinesOf(parse_in[1]) : IsQuestionLine(line)
     /\ AnswerLetters(parse_in[1]) # {}
     /\ AnswerLetters(parse_in[1]) \subseteq OptionLetters(parse_in[1])) =>
        \A l \in AnswerLetters(parse_in[1]) :
            /\ parse_out[1].correct_index # None
            /\ parse_out[1].correct_index[1] < Len(parse_out[1].options)
            /\ parse_out[1].options[parse_out[1].correct_index[1] + 1]
                    = LabelledText(parse_in[1], l)

\* every session belongs to a poll that some request got back from reply_poll
SessionsFromPolls ==
    \A k \in DOMAIN bot_data :
        \E q \in Reqs : pollmsg[q] = Some(k) /\ pc[q] = "done"

C7_TwoToFourOptions ==
    \A r \in Reqs :
        \A n \in 1..Len(pollreq[r]) :
            /\ 2 <= Len(pollreq[r][n].options)
            /\ Len(pollreq[r][n].options) <= 4

\* C8: the example text parses to its question, its four options in order,
\* correct index 0 and its explanation; and for every text whose option lines
\* are exactly A) .. D) in that order, with a line Correct Answer: X, the
\* correct index is the position of X in A..D.
C8_ExampleParses ==
    (parse_in # None /\ parse_out # None) =>
        /\ parse_in[1] = ExampleText =>
                parse_out[1] =
                    [question |-> Some(<< "What gem do you use for Cucumber?" >>),
                     options |-> << << "cucumber" >>, << "rspec" >>,
                                    << "capybara" >>, << "selenium" >> >>,
                     correct_index |-> Some(0),
                     explanation |->
                        << "Cucumber is the gem implementing the Gherkin syntax." >>]
        /\ (/\ [n \in 1..Len(OptionLineSeq(parse_in[1])) |->
                    OptionLineSeq(parse_in[1])[n][1]] = LetterSeq
            /\ AnswerLetters(parse_in[1]) # {}) =>
                \A n \in 1..4 :
                    LetterSeq[n] \in AnswerLetters(parse_in[1]) =>
                        parse_out[1].correct_index = Some(n - 1)

C8_Witness ==
    /\ parse_in = Some(ExampleText)
    /\ parse_out # None
    /\ parse_out[1].correct_index = Some(0)
    /\ Len(parse_out[1].options) = 4

\* C9 as claimed: when the requester yields None or the empty text, quiz()
\* sends exactly one retry-later message, passes no poll to the platform,
\* registers no session and does not raise.
C9_EmptyResultNeverRaises ==
    \A r \in Reqs :
        (Resumed(r) /\ ~HasText(r)) =>
            /\ Len(sent[r]) = 1
            /\ sent[r][1].text = RetryLaterMsg
            /\ pollreq[r] = << >>
            /\ pollmsg[r] = None
            /\ SessionsFromPolls
            /\ pc[r] = "done"

\* C9 as amended: when the requester yields None or the empty text, quiz()
\* makes exactly one reply_text call, with the retry-later message, passes no
\* poll to the platform and registers no session; it ends normally when the
\* platform accepts that message and raises only when that reply_text call
\* itself raises.
C9_EmptyResultRetryLater ==
    \A r \in Reqs :
        (Resumed(r) /\ ~HasText(r)) =>
            /\ Len(sent[r]) = 1
            /\ sent[r][1].text = RetryLaterMsg
            /\ pollreq[r] = << >>
            /\ pollmsg[r] = None
            /\ SessionsFromPolls
            /\ pc[r] = (IF sent[r][1].accepted THEN "done" ELSE "raised")

C9_Witness ==
    \E r, q \in Reqs :
        /\ pc[r] = "done" /\ ret[r] = None /\ calls[r] = 3
        /\ sent[r] = << [text |-> RetryLaterMsg, accepted |-> TRUE] >>
        /\ pc[q] = "done" /\ ret[q] = Some(<< >>)
        /\ sent[q] = << [text |-> RetryLaterMsg, accepted |-> TRUE] >>

\* C10: a poll-answer event whose poll id has no session sends nothing,
\* raises nothing and leaves the session map (and everything but the record
\* of the event) as it was.
C10_UnknownPollIgnored ==
    [][(last'.op = "answer" /\ last'.poll_id \notin DOMAIN bot_data) =>
            /\ outbox' = outbox
            /\ bot_data' = bot_data
            /\ sent' = sent
            /\ pollreq' = pollreq
            /\ polls' = polls
            /\ last'.ok]_vars

C10_Witness ==
    /\ last.op = "answer"
    /\ last.poll_id \notin DOMAIN bot_data
    /\ last.poll_id \in {p.id : p \in polls} \cup StalePollIds
    /\ DOMAIN bot_data # {}
    /\ outbox = << >>

\* C11: when an answer event arrives for a poll id that has a session, the
\* handler sends exactly one message: to the chat the poll was presented in,
\* with the explanation stored for that poll id and the first name of the
\* responder; the message is the same whichever option was picked, and the
\* session map is left as it was.
C11_RegisteredAnswerExplains ==
    [][\A poll_id \in DOMAIN bot_data, user \in Users, option \in 0..1, ok \in BOOLEAN :
          ReceivePollAnswer(poll_id, user, option, ok) =>
              /\ \E p \in polls :
                    /\ p.id = poll_id
                    /\ outbox' = Append(outbox,
                          [chat_id |-> p.chat_id,
                           text |-> << "[book] Explanation for ", user, ":", NL >>
                                        \o bot_data[poll_id].explanation])
              /\ bot_data' = bot_data
              /\ sent' = sent
              /\ polls' = polls]_vars

C11_Witness ==
    /\ last.op = "answer"
    /\ last.poll_id \in DOMAIN bot_data
    /\ Len(outbox) = 1
    /\ \E k \in DOMAIN bot_data :
          /\ k # last.poll_id
          /\ bot_data[k].chat_id # outbox[1].chat_id
          /\ bot_data[k].explanation # bot_data[last.poll_id].explanation

\* C12: a registered session stays under the same key with the same
\* explanation and the same chat id: no step overwrites, changes or deletes
\* an entry of the session map, whose key set only grows, whether the quiz
\* was started by a command or by the timer.
C12_SessionsNeverChange ==
    [][\A k \in DOMAIN bot_data :
          k \in DOMAIN bot_data' /\ bot_data'[k] = bot_data[k]]_vars

C12_Witness ==
    /\ Cardinality(DOMAIN bot_data) = 2
    /\ periodic.timer # {}
    /\ periodic.timer # Reqs
    /\ Len(outbox) = 1

\* C13: while the retry and backoff sequence of a quiz request is in
\* progress, an answer event or another /quiz command that arrives can be
\* handled before that sequence finishes.
C13_HandledDuringRetry ==
    \A r \in Reqs :
        pc[r] \in {"call", "sleep"} =>
            /\ Len(outbox) < MaxAnswers =>
                  ENABLED (\E poll_id \in PollIds, user \in Users, option \in 0..1,
                              ok \in BOOLEAN :
                                 ReceivePollAnswer(poll_id, user, option, ok))
            /\ (\E q \in Reqs : pc[q] = "idle") =>
                  ENABLED (\E q \in Reqs, c \in Chats : Quiz(q, c))

\* C14: parse_quiz_response raises for no input: it always returns the four
\* fields, and when the extraction raises (the response is None) the result
\* is the invalid-parse value (None, [], None, ''), which quiz() treats as
\* could-not-parse.
C14_ParserNeverRaises ==
    parse_out # None =>
        /\ DOMAIN parse_out[1] = {"question", "options", "correct_index", "explanation"}
        /\ parse_in = None =>
              /\ parse_out[1].question = None
              /\ parse_out[1].options = << >>
              /\ parse_out[1].correct_index = None
              /\ parse_out[1].explanation = << >>
              /\ Unparsed(parse_out[1])

C14_Witness ==
    /\ parse_in = None
    /\ parse_out # None
    /\ parse_out[1].options = << >>

PollOutcome(r) ==
    /\ pollmsg[r] # None
    /\ pollmsg[r][1] \in DOMAIN bot_data
    /\ \E p \in polls : p.id = pollmsg[r][1]

MessageOutcome(r, text) ==
    \E n \in 1..Len(sent[r]) : sent[r][n].text = text /\ sent[r][n].accepted

Outcomes(r) ==
    (IF PollOutcome(r) THEN {"poll"} ELSE {})
    \cup (IF MessageOutcome(r, RetryLaterMsg) THEN {"retry-later"} ELSE {})
    \cup (IF MessageOutcome(r, CouldNotParseMsg) THEN {"could-not-parse"} ELSE {})

Terminated(r) == pc[r] \in {"done", "raised"}

\* C15 as claimed: a quiz request that has terminated has produced exactly
\* one of three outcomes (a poll presented with its session registered, the
\* retry-later message, the could-not-parse message): never two, never none.
C15_ExactlyOneOutcome ==
    \A r \in Reqs : Terminated(r) => Cardinality(Outcomes(r)) = 1

\* C15 as amended: every quiz request that was started terminates (given
\* that each endpoint call and platform call returns or fails); it never
\* produces two outcomes; when it ends normally it has produced exactly one
\* of the three outcomes through exactly one platform call; and it ends by
\* raising, with no outcome and no session, exactly when its one platform
\* call raised.
C15_TerminatesOneOutcomeOrRaises ==
    /\ \A r \in Reqs : (pc[r] # "idle") ~> Terminated(r)
    /\ [](\A r \in Reqs :
            /\ Cardinality(Outcomes(r)) <= 1
            /\ pc[r] = "done" =>
                  /\ Cardinality(Outcomes(r)) = 1
                  /\ Len(sent[r]) + Len(pollreq[r]) = 1
            /\ pc[r] = "raised" =>
                  /\ Outcomes(r) = {}
                  /\ Len(sent[r]) + Len(pollreq[r]) = 1
                  /\ pollmsg[r] = None
                  /\ \A n \in 1..Len(sent[r]) : ~sent[r][n].accepted)

C15_Witness ==
    \E r, q \in Reqs :
        /\ pc[r] = "done" /\ Outcomes(r) = {"poll"}
        /\ pc[q] = "raised" /\ pollreq[q] # << >>

\* C16: every key of the session map is the platform-issued id of a poll
\* that quiz() created, and the stored chat id is the chat that poll was
\* sent to; a session exists only for a request whose poll was created, so
\* a request that failed at generation, parsing or poll creation added none.
C16_SessionsAreCreatedPolls ==
    /\ \A k \in DOMAIN bot_data :
          \E p \in polls, r \in Reqs :
              /\ p.id = k
              /\ p.chat_id = bot_data[k].chat_id
              /\ pollmsg[r] = Some(k)
              /\ pollreq[r] = << p.args >>
              /\ chat[r] = p.chat_id
    /\ Cardinality(DOMAIN bot_data)
          = Cardinality({r \in Reqs : pollmsg[r] # None /\ pc[r] = "done"})

C16_Witness ==
    \E r, q \in Reqs :
        /\ pc[r] = "done" /\ pollmsg[r] # None /\ r \in periodic.timer
        /\ DOMAIN bot_data = {pollmsg[r][1]}
        /\ pc[q] = "raised" /\ pollreq[q] # << >> /\ q \notin periodic.timer

\* C17: no answer event for a poll created by this process is handled
\* before that poll's session is registered: whenever the answer handler
\* runs for the id of a created poll, command-triggered or timer-triggered,
\* it finds the session.
C17_AnswerFindsSession ==
    (last.op = "answer" /\ last.poll_id \in {p.id : p \in polls}) =>
        last.poll_id \in DOMAIN bot_data

\* C18: the backoff after failed attempt i (counted from 0) is 2^i seconds
\* and is slept only when another attempt follows: when max_retries = n
\* attempts are exhausted the sleeps were exactly 2^0, ..., 2^(n-2), that is
\* n - 1 sleeps and none after the final failure; with max_retries = 1 there
\* is no sleep at all.
C18_BackoffOnlyBetweenAttempts ==
    \A r \in Reqs :
        /\ sleeps[r] = [i \in 1..Len(sleeps[r]) |-> 2 ^ (i - 1)]
        /\ pc[r] = "sleep" => attempt[r] + 1 < max_retries[r]
        /\ (pc[r] = "returned" /\ ret[r] = None /\ max_retries[r] >= 1) =>
              /\ calls[r] = max_retries[r]
              /\ Len(sleeps[r]) = max_retries[r] - 1
        /\ max_retries[r] = 1 => sleeps[r] = << >>

C18_Witness ==
    /\ pc[1] = "returned"
    /\ ret[1] = None
    /\ max_retries[1] = 4
    /\ sleeps[1] = << 1, 2, 4 >>

\* C19: options has exactly as many entries as the text has lettered option
\* lines, in document order, each entry being the text of its line after
\* the label; text elsewhere (the Question line, the Correct Answer line,
\* the Explanation body) contributes no option.
C19_OptionsAreOptionLines ==
    (parse_in # None /\ parse_out # None) =>
        parse_out[1].options =
            [n \in 1..Len(OptionLineSeq(parse_in[1])) |->
                SubSeq(OptionLineSeq(parse_in[1])[n], 4,
                       Len(OptionLineSeq(parse_in[1])[n]))]

\* C20: the periodic sender keeps running across failures: when a
\* timer-triggered quiz raises, the error is caught and logged, that
\* iteration registers no session, and after the interval the next periodic
\* quiz is attempted; a timer-triggered quiz that succeeds registers its
\* session in the same session map, under its poll id and with the periodic
\* chat, so that an answer event resolves it as it does a command-triggered
\* one.
C20_PeriodicSenderKeepsRunning ==
    /\ periodic.chat # None => periodic.state \in {"waiting", "running"}
    /\ periodic.errors
          = Cardinality({r \in periodic.timer : pc[r] = "raised" /\ r # periodic.cur})
    /\ \A r \in periodic.timer :
          /\ pc[r] = "raised" =>
                pollmsg[r] = None /\ \A k \in DOMAIN bot_data : pollmsg[r] # Some(k)
          /\ (pc[r] = "done" /\ pollmsg[r] # None) =>
                /\ Get(bot_data, pollmsg[r][1]) # None
                /\ bot_data[pollmsg[r][1]].chat_id = periodic.chat[1]
                /\ bot_data[pollmsg[r][1]].explanation
                      = parse_quiz_response(ret[r]).explanation
                /\ (last.op = "answer" /\ last.poll_id = pollmsg[r][1]) =>
                      /\ outbox # << >>
                      /\ outbox[Len(outbox)].chat_id = periodic.chat[1]
    /\ (periodic.state = "waiting" /\ \E q \in Reqs : pc[q] = "idle") =>
          ENABLED (\E q \in Reqs : PeriodicQuiz(q))

C20_Witness ==
    /\ periodic.timer = {1, 2}
    /\ periodic.errors = 1
    /\ periodic.state = "waiting"
    /\ pc[1] = "raised"
    /\ pc[2] = "done"
    /\ pollmsg[2] # None
    /\ last.op = "answer"
    /\ last.poll_id = pollmsg[2][1]
    /\ Len(outbox) = 1

====
